---- MODULE Spec2Model ----
(***************************************************************************)
(* ScalarAuthClient (src/src/ScalarAuthClient.js): acquisition, validation *)
(* and caching of the integration manager's scalar_token.                  *)
(*                                                                         *)
(* One action per external event.  JavaScript is single threaded and the   *)
(* promise reactions queued by one event are drained before the next event *)
(* is delivered, so the whole chain of then/catch callbacks that an answer *)
(* triggers, up to the next request the chain waits for, is one step.      *)
(***************************************************************************)
EXTENDS Integers, Sequences, FiniteSets, TLC

\* ------------------------------------------------------------------ bounds
\* number of connect()/getScalarToken() calls made on the instance
MaxCalls == 2
\* number of calls made where calls are followed to their end
MaxLiveCalls == 1

\* ------------------------------------------------------- JavaScript values
Null == "<null>"
Undefined == "<undefined>"
EmptyString == ""
\* scalar_token values an integration manager hands out
Tokens == {"tokA", "tokB"}
\* the token object getOpenIdToken() resolves to
OpenIdToken == "openid-token"
\* MatrixClientPeg.get().getUserId() and some other account
Me == "@me:server"
Other == "@other:server"

\* JavaScript truthiness of a string-or-null value, as tested by `!token`
Truthy(v) == v \notin {Null, Undefined, EmptyString}

\* ------------------------------------------------------------------ errors
NoStatus == 0
NoError == [kind |-> "none", statusCode |-> NoStatus, detail |-> ""]
\* `err` handed to the request callback by browser-request
TransportError == [kind |-> "TransportError", statusCode |-> NoStatus, detail |-> ""]
\* new TermsNotSignedError()
TermsNotSignedError == [kind |-> "TermsNotSignedError", statusCode |-> NoStatus, detail |-> ""]
\* new Error(message)
JsError(message) == [kind |-> "Error", statusCode |-> NoStatus, detail |-> message]
\* reject({statusCode: response.statusCode})
StatusCodeError(code) == [kind |-> "StatusCodeObject", statusCode |-> code, detail |-> ""]
\* reject(body): the parsed JSON body itself is the rejection value; it has no
\* statusCode property, only what the server put in it (its errcode, if any)
BodyAsError(body) == [kind |-> "ResponseBody", statusCode |-> NoStatus, detail |-> body.errcode]
\* rejection of MatrixClientPeg.get().getOpenIdToken()
OpenIdError == [kind |-> "OpenIdError", statusCode |-> NoStatus, detail |-> ""]

\* `e instanceof TermsNotSignedError`
InstanceOfTermsNotSignedError(e) == e.kind = "TermsNotSignedError"

\* outcome of a promise
Resolve(v) == [ok |-> TRUE, value |-> v, error |-> NoError]
Reject(e) == [ok |-> FALSE, value |-> Undefined, error |-> e]

\* ---------------------------------------------------------- HTTP responses
\* parsed JSON body (json: true); absent properties are Undefined
Body(err, uid, tok) == [present |-> TRUE, errcode |-> err, user_id |-> uid, scalar_token |-> tok]
NoBody == [present |-> FALSE, errcode |-> Undefined, user_id |-> Undefined, scalar_token |-> Undefined]
Response(code, body) == [err |-> FALSE, statusCode |-> code, body |-> body]
TransportFailure == [err |-> TRUE, statusCode |-> NoStatus, body |-> NoBody]

\* answers of GET /account
AccountResponses ==
    { TransportFailure,
      Response(200, Body(Undefined, Me, Undefined)),
      Response(200, Body(Undefined, Other, Undefined)),
      Response(200, Body(Undefined, Undefined, Undefined)),
      Response(403, Body("M_TERMS_NOT_SIGNED", Undefined, Undefined)),
      Response(403, Body("M_FORBIDDEN", Undefined, Undefined)) }

\* answers of POST /register
RegisterResponses ==
    { TransportFailure,
      Response(500, NoBody),
      Response(201, Body(Undefined, Undefined, "tokA")),
      Response(200, NoBody),
      Response(200, Body(Undefined, Undefined, EmptyString)) }
    \cup { Response(200, Body(Undefined, Undefined, t)) : t \in Tokens }

\* what an answer of /account says about the token it was asked about, read
\* off the answer itself: the lookup succeeded (2xx) and names the current
\* user, it names somebody else, it asks for the terms, or anything else
Verdict(resp) ==
    IF resp.err THEN "failed"
    ELSE IF resp.body.present /\ resp.body.errcode = "M_TERMS_NOT_SIGNED" THEN "terms"
    ELSE IF resp.statusCode \div 100 = 2 /\ resp.body.present /\ resp.body.user_id = Me THEN "owner"
    ELSE IF resp.statusCode \div 100 = 2 /\ resp.body.present /\ Truthy(resp.body.user_id) THEN "mismatch"
    ELSE "failed"

\* `response.statusCode / 100 !== 2` is false: JavaScript's / is a floating
\* point division, so the quotient is exactly 2 only for status 200
StatusIs2(statusCode) == statusCode % 100 = 0 /\ statusCode \div 100 = 2

\* ------------------------------------------------------- request callbacks
\* callback of the GET /account request in _getAccountName
getAccountNameCallback(resp) ==
    IF resp.err THEN Reject(TransportError)
    ELSE IF resp.body.present /\ resp.body.errcode = "M_TERMS_NOT_SIGNED"
         THEN Reject(TermsNotSignedError)
    ELSE IF ~StatusIs2(resp.statusCode) THEN Reject(BodyAsError(resp.body))
    ELSE IF ~resp.body.present \/ ~Truthy(resp.body.user_id)
         THEN Reject(JsError("Missing user_id in response"))
    ELSE Resolve(resp.body.user_id)

\* a callback that resolves with a property the /register answer does not have
exchangeCallback_WrongField(resp) ==
    IF resp.err THEN Reject(TransportError)
    ELSE IF ~StatusIs2(resp.statusCode) THEN Reject(StatusCodeError(resp.statusCode))
    ELSE IF ~resp.body.present \/ ~Truthy(resp.body.scalar_token)
         THEN Reject(JsError("Missing scalar_token in response"))
    ELSE Resolve(resp.body.user_id)

\* callback of the POST /register request in exchangeForScalarToken
exchangeCallback(resp) ==
    IF resp.err THEN Reject(TransportError)
    ELSE IF ~StatusIs2(resp.statusCode) THEN Reject(StatusCodeError(resp.statusCode))
    ELSE IF ~resp.body.present \/ ~Truthy(resp.body.scalar_token)
         THEN Reject(JsError("Missing scalar_token in response"))
    ELSE Resolve(resp.body.scalar_token)

\* a .then(userId => ...) that forgets to return the token
checkTokenThen_NoReturn(userId, token) ==
    IF userId # Me
    THEN Reject(JsError("Scalar token is owned by someone else"))
    ELSE Resolve(Undefined)

\* the .then(userId => ...) of _checkToken
checkTokenThen(userId, token) ==
    IF userId # Me
    THEN Reject(JsError("Scalar token is owned by someone else"))
    ELSE Resolve(token)

\* ------------------------------------------------- message context menu
\* EventStatus of matrix-js-sdk, the values the menu tests for and one other
NOT_SENT == "not_sent"
QUEUED == "queued"
SENDING == "sending"
SENT == "sent"
CANCELLED == "cancelled"
\* mxEvent.status: null for an event that came from the server
MessageStatuses == {Null, SENT, NOT_SENT, QUEUED, SENDING}
LocalStatuses == {NOT_SENT, QUEUED, SENDING}

\* what mxEvent.replacingEvent() and mxEvent.localRedactionEvent() return:
\* nothing, or a local event with a status
NoEvent == [present |-> FALSE, status |-> Undefined]
LocalEvent(status) == [present |-> TRUE, status |-> status]
LocalEvents == {NoEvent} \cup {LocalEvent(st) : st \in LocalStatuses}
\* `e && e.status`
StatusOf(e) == IF e.present THEN e.status ELSE Null

\* the id of mxEvent and of some other event of the room
ThisEvent == "$this"
OtherEvent == "$other"
\* a pending event of the room: its relation (getRelation()) and its status
PendingEvent(rel_type, event_id, status) ==
    [rel_type |-> rel_type, event_id |-> event_id, status |-> status]
PendingKinds ==
    {PendingEvent("m.annotation", ThisEvent, st) : st \in LocalStatuses}
    \cup {PendingEvent("m.annotation", OtherEvent, QUEUED),
          PendingEvent("m.replace", ThisEvent, NOT_SENT),
          PendingEvent(Undefined, Undefined, QUEUED)}

\* most pending events a room has
MaxPending == 2
\* room.getPendingEvents(): how many pending events of each kind there are
RECURSIVE Total(_, _)
Total(count, kinds) ==
    IF kinds = {} THEN 0
    ELSE LET k == CHOOSE x \in kinds : TRUE
         IN  count[k] + Total(count, kinds \ {k})
Length(pending) == Total(pending, PendingKinds)
NoPending == [k \in PendingKinds |-> 0]
PendingLists == {p \in [PendingKinds -> 0..MaxPending] : Length(p) <= MaxPending}

MxEvents ==
    [ status : MessageStatuses,             \* mxEvent.status
      redacted : BOOLEAN,                   \* mxEvent.isRedacted()
      replacingEvent : LocalEvents,         \* mxEvent.replacingEvent()
      localRedactionEvent : LocalEvents,    \* mxEvent.localRedactionEvent()
      sender : {Me, Other},                 \* mxEvent.sender.userId
      actionable : BOOLEAN ]                \* isContentActionable(mxEvent)
Rooms ==
    [ pending : PendingLists,               \* room.getPendingEvents()
      dmUserId : {Undefined, Other},        \* DMRoomMap getUserIdForRoomId(room_id)
      mayRedact : BOOLEAN,                  \* maySendRedactionForEvent(mxEvent, me)
      mayPin : BOOLEAN,                     \* mayClientSendStateEvent('m.room.pinned_events')
      featurePinning : BOOLEAN ]            \* SettingsStore.isFeatureEnabled('feature_pinning')

\* before the menu is opened, and what is left once it is gone
NoMxEvent ==
    [ status |-> Null, redacted |-> FALSE, replacingEvent |-> NoEvent,
      localRedactionEvent |-> NoEvent, sender |-> Me, actionable |-> FALSE ]
NoRoom ==
    [ pending |-> NoPending, dmUserId |-> Undefined,
      mayRedact |-> FALSE, mayPin |-> FALSE, featurePinning |-> FALSE ]
\* getInitialState, no listener, nothing rendered
NoMenu ==
    [ phase |-> "none",         \* "none", "mounted", "closed", "unmounted"
      stale |-> FALSE,          \* an event changed since the last render()
      lastClick |-> "none",     \* the handler that closed the menu
      listening |-> FALSE,      \* _checkPermissions is a RoomMember.powerLevel listener
      canRedact |-> FALSE,      \* this.state.canRedact
      canPin |-> FALSE,         \* this.state.canPin
      buttons |-> {} ]          \* the buttons the last render() returned

\* ---------------------------------------------------------- pinned events
\* number of pin clicks followed, and longest pinned list another client writes
MaxClicks == 2
MaxPinned == 2

ThirdEvent == "$third"
EventIds == {ThisEvent, OtherEvent, ThirdEvent}

\* the lists of event ids a room has pinned: each id once
PinnedLists ==
    { l \in UNION { [1..n -> EventIds] : n \in 0..MaxPinned } :
        \A i, j \in DOMAIN l : l[i] = l[j] => i = j }

\* what getStateEvent(roomId, 'm.room.pinned_events', '') resolves to: the
\* content of the state event, whose `pinned` may be missing
PinnedContent(pinned) == [ present |-> TRUE, hasPinned |-> TRUE, pinned |-> pinned ]
ContentWithoutPinned == [ present |-> TRUE, hasPinned |-> FALSE, pinned |-> <<>> ]
PinnedContents == { PinnedContent(l) : l \in PinnedLists } \cup {ContentWithoutPinned}
\* the room has no m.room.pinned_events; also the null the catch returns
NoPinnedEvents == [ present |-> FALSE, hasPinned |-> FALSE, pinned |-> <<>> ]

M_NOT_FOUND == "M_NOT_FOUND"
M_FORBIDDEN == "M_FORBIDDEN"
NoErrcode == "none"

\* one pin click: where its promise chain is, and the list it sends
IdleClick ==
    [ pc |-> "idle",            \* "idle", "fetching", "sending", "sent", "rejected", "failed"
      eventIds |-> <<>>,        \* { pinned: eventIds } of sendStateEvent, while sending
      errcode |-> NoErrcode,    \* how getStateEvent answered
      alone |-> FALSE ]         \* every earlier click had ended when this one was made
NoPins ==
    [ server |-> NoPinnedEvents,    \* m.room.pinned_events on the homeserver
      original |-> NoPinnedEvents,  \* the same before the first click
      otherWriter |-> FALSE,        \* another client has written it since
      clicks |-> [i \in 1..MaxClicks |-> IdleClick] ]

\* ------------------------------------------------------------------- state
VARIABLES
    scalarToken,    \* this.scalarToken
    localStorage,   \* window.localStorage["mx_scalar_token"], Null when absent
    calls,          \* the connect()/getScalarToken() calls made so far
    mxEvent,        \* this.props.mxEvent of the MessageContextMenu
    room,           \* what the client holds about the room of that event
    menu,           \* the MessageContextMenu component
    pins            \* the pinned events of the room and the pin clicks made

vars == <<scalarToken, localStorage, calls, mxEvent, room, menu, pins>>
authVars == <<scalarToken, localStorage, calls>>
menuVars == <<mxEvent, room, menu, pins>>

Calls == 1..MaxCalls

\* window.localStorage.getItem / setItem: storage holds DOMStrings, setItem
\* converts its argument with ToString, which leaves a string as it is
DOMString(v) == v
getItem(store) == store
\* a write that keeps an entry that is already there
setItem_KeepsFirst(store, v) == IF Truthy(store) THEN store ELSE DOMString(v)
setItem(store, v) == DOMString(v)

\* one entry of a call's record of the requests it issued
Ev(op, val) == [op |-> op, val |-> val]

\* a call that has not been made yet
IdleCall ==
    [ kind |-> "none",          \* "connect" or "getScalarToken"
      pc |-> "idle",            \* what the promise chain waits for
      phase |-> "none",         \* "cached": _checkToken of line 63; "exchange": registerForToken
      token |-> Undefined,      \* the token under validation (closure variable)
      terms |-> "idle",         \* state of the terms presentation it started
      result |-> Undefined,     \* value the call resolved to
      error |-> NoError,        \* value the call rejected with
      \* history, read only by the properties
      traced |-> TRUE,          \* FALSE once the history is no longer kept
      source |-> "none",        \* where the candidate came from
      memAtStart |-> Null, storeAtStart |-> Null, doneAtStart |-> {},
      trace |-> << >>,          \* requests issued and storage writes, in order
      verdicts |-> << >>,       \* the answers of /account: token asked about, verdict
      registered |-> Undefined, \* body.scalar_token of the /register answer
      httpStatus |-> NoStatus,  \* status of the HTTP answer being handled, if any
      termsLog |-> << >> ]      \* outcomes of the terms presentations

Done(call) == call.pc \in {"resolved", "rejected", "released"}

\* The history is kept for the two most recent calls.  Of an older call only
\* what the program itself still holds is kept: its position in the promise
\* chain and the closure variables while it is in flight, nothing once it has
\* settled.
Untraced(call) ==
    IF call.pc \in {"resolved", "rejected", "released"}
    THEN [IdleCall EXCEPT !.pc = "released", !.traced = FALSE]
    ELSE [IdleCall EXCEPT !.kind = call.kind, !.pc = call.pc, !.phase = call.phase,
                          !.token = call.token, !.terms = call.terms, !.traced = FALSE]
Kept(call) == IF call.traced THEN call ELSE Untraced(call)
Traced(c) == calls[c].traced /\ calls[c].pc # "idle"

World(c) == [mem |-> scalarToken, store |-> localStorage, call |-> calls[c]]

\* a settle step that stores the token whoever the caller is
connectThen_AnyCaller(w, outcome) ==
    [ mem |-> IF outcome.ok THEN outcome.value ELSE w.mem,
      store |-> w.store,
      call |-> [w.call EXCEPT !.pc = IF outcome.ok THEN "resolved" ELSE "rejected",
                              !.result = outcome.value,
                              !.error = outcome.error] ]

\* the promise returned to the caller settles; for connect() the
\* .then((tok) => { this.scalarToken = tok; }) of line 46 runs
connectThen(w, outcome) ==
    [ mem |-> IF w.call.kind = "connect" /\ outcome.ok THEN outcome.value ELSE w.mem,
      store |-> w.store,
      call |-> [w.call EXCEPT !.pc = IF outcome.ok THEN "resolved" ELSE "rejected",
                              !.result = outcome.value,
                              !.error = outcome.error] ]

\* registerForToken, up to the getOpenIdToken() request it waits for
registerForToken(w) ==
    [w EXCEPT !.call = [w.call EXCEPT !.pc = "openid", !.phase = "exchange",
                                      !.httpStatus = NoStatus,
                                      !.trace = Append(@, Ev("getOpenIdToken", Undefined))]]

\* a last .then((tokenObject) => ...) that does not persist the token
registerForTokenThen_NoSetItem(w, outcome) == connectThen(w, outcome)

\* the last .then((tokenObject) => ...) of registerForToken
registerForTokenThen(w, outcome) ==
    IF outcome.ok
    THEN connectThen([w EXCEPT !.store = setItem(w.store, outcome.value),
                               !.call = [w.call EXCEPT !.trace = Append(@, Ev("setItem", outcome.value))]],
                     Resolve(outcome.value))
    ELSE connectThen(w, outcome)

\* a .catch((e) => ...) that rethrows whatever it catches
getScalarTokenCatch_Rethrow(w, outcome) == connectThen(w, outcome)

\* the .catch((e) => ...) that getScalarToken puts on _checkToken(token)
getScalarTokenCatch(w, outcome) ==
    IF outcome.ok THEN connectThen(w, outcome)
    ELSE IF InstanceOfTermsNotSignedError(outcome.error) THEN connectThen(w, outcome)
    ELSE registerForToken(w)

\* whoever called _checkToken gets its outcome
checkTokenSettled(w, outcome) ==
    IF w.call.phase = "cached" THEN getScalarTokenCatch(w, outcome)
    ELSE registerForTokenThen(w, outcome)

\* a _checkToken that returns a promise nothing ever settles
checkToken_NeverSettles(w, token) ==
    [w EXCEPT !.call = [w.call EXCEPT !.pc = "hung", !.token = token,
                                      !.httpStatus = NoStatus]]

\* _checkToken, up to the GET /account request it waits for
checkToken(w, token) ==
    [w EXCEPT !.call = [w.call EXCEPT !.pc = "account", !.token = token,
                                      !.httpStatus = NoStatus,
                                      !.trace = Append(@, Ev("GET /account", token))]]

\* a .catch((e) => ...) that starts the terms presentation without waiting
\* for it and fails the validation with an ordinary error
checkTokenCatch_NotAwaited(w, outcome) ==
    IF ~outcome.ok /\ InstanceOfTermsNotSignedError(outcome.error)
    THEN checkTokenSettled(
             [w EXCEPT !.call = [w.call EXCEPT !.terms = "pending",
                                     !.trace = Append(@, Ev("presentTermsForServices", w.call.token))]],
             Reject(JsError("terms not signed")))
    ELSE checkTokenSettled(w, outcome)

\* the .catch((e) => ...) of _checkToken
checkTokenCatch(w, outcome) ==
    IF ~outcome.ok /\ InstanceOfTermsNotSignedError(outcome.error)
    THEN [w EXCEPT !.call = [w.call EXCEPT !.pc = "terms", !.terms = "pending",
                                           !.httpStatus = NoStatus,
                                           !.trace = Append(@, Ev("presentTermsForServices", w.call.token))]]
    ELSE checkTokenSettled(w, outcome)

Commit(c, w) ==
    /\ scalarToken' = w.mem
    /\ localStorage' = w.store
    /\ calls' = [d \in Calls |->
                   IF d = c THEN Kept(w.call)
                   ELSE IF d = c - 2 /\ calls[c].pc = "idle" THEN Untraced(calls[d])
                   ELSE calls[d]]
    /\ UNCHANGED menuVars

\* an exchange that also keeps the OpenID token in storage
exchangeForScalarToken_StoresOpenId(w, openidTokenObject) ==
    [w EXCEPT !.store = setItem(w.store, openidTokenObject),
              !.call = [w.call EXCEPT !.pc = "register",
                                      !.trace = Append(@, Ev("POST /register", openidTokenObject))]]

\* exchangeForScalarToken, up to the POST /register request it waits for
exchangeForScalarToken(w, openidTokenObject) ==
    [w EXCEPT !.call = [w.call EXCEPT !.pc = "register",
                                      !.trace = Append(@, Ev("POST /register", openidTokenObject))]]

\* ----------------------------------------------------------------- actions
\* a call that goes to the exchange only when there is no stored value at all
getScalarToken_NullTest(c, kind) ==
    /\ calls[c].pc = "idle"
    /\ IF c = 1 THEN TRUE ELSE calls[c - 1].pc # "idle"
    /\ LET inMemory == scalarToken
           token == IF ~Truthy(inMemory) THEN getItem(localStorage) ELSE inMemory
           w == [World(c) EXCEPT !.call = [IdleCall EXCEPT
                    !.kind = kind,
                    !.source = IF Truthy(inMemory) THEN "memory"
                               ELSE IF Truthy(token) THEN "storage" ELSE "none",
                    !.memAtStart = scalarToken,
                    !.storeAtStart = localStorage,
                    !.doneAtStart = {d \in Calls : Done(calls[d])}]]
       IN  IF token = Null
           THEN Commit(c, registerForToken(w))
           ELSE Commit(c, checkToken([w EXCEPT !.call.phase = "cached"], token))

\* a caller invokes connect() or getScalarToken()
getScalarToken(c, kind) ==
    /\ calls[c].pc = "idle"
    /\ IF c = 1 THEN TRUE ELSE calls[c - 1].pc # "idle"
    /\ LET inMemory == scalarToken
           token == IF ~Truthy(inMemory) THEN getItem(localStorage) ELSE inMemory
           w == [World(c) EXCEPT !.call = [IdleCall EXCEPT
                    !.kind = kind,
                    !.source = IF Truthy(inMemory) THEN "memory"
                               ELSE IF Truthy(token) THEN "storage" ELSE "none",
                    !.memAtStart = scalarToken,
                    !.storeAtStart = localStorage,
                    !.doneAtStart = {d \in Calls : Done(calls[d])}]]
       IN  IF ~Truthy(token)
           THEN Commit(c, registerForToken(w))
           ELSE Commit(c, checkToken([w EXCEPT !.call.phase = "cached"], token))

\* the integration manager answers GET /account
AccountAnswer(c, resp) ==
    /\ calls[c].pc = "account"
    /\ LET w == [World(c) EXCEPT !.call.httpStatus = resp.statusCode,
                                 !.call.verdicts =
                     Append(@, [token |-> calls[c].token, verdict |-> Verdict(resp)])]
           name == getAccountNameCallback(resp)
           checked == IF name.ok THEN checkTokenThen(name.value, calls[c].token) ELSE name
       IN  Commit(c, checkTokenCatch(w, checked))

\* presentTermsForServices settles: the user agreed, the user declined
\* (TermsNotSignedError), or fetching or agreeing to the terms failed
TermsOutcomes == {"agreed", "declined", "failed"}
presentTermsOutcome(out, token) ==
    IF out = "agreed" THEN Resolve(token)
    ELSE IF out = "declined" THEN Reject(TermsNotSignedError)
    ELSE Reject(JsError("terms request failed"))

TermsAnswer(c, out) ==
    /\ calls[c].terms = "pending"
    /\ LET w == [World(c) EXCEPT !.call.terms = out, !.call.termsLog = Append(@, out)]
       IN  IF calls[c].pc = "terms"
           THEN Commit(c, checkTokenSettled(w, presentTermsOutcome(out, calls[c].token)))
           ELSE Commit(c, w)

\* a failure handler that forgets the credential and removes the storage entry
OpenIdAnswer_ResetOnFailure(c, ok) ==
    /\ calls[c].pc = "openid"
    /\ IF ok
       THEN Commit(c, exchangeForScalarToken(World(c), OpenIdToken))
       ELSE Commit(c, connectThen([World(c) EXCEPT !.mem = Null, !.store = Null],
                                  Reject(OpenIdError)))

\* the homeserver answers getOpenIdToken()
OpenIdAnswer(c, ok) ==
    /\ calls[c].pc = "openid"
    /\ IF ok
       THEN Commit(c, exchangeForScalarToken(World(c), OpenIdToken))
       ELSE Commit(c, connectThen(World(c), Reject(OpenIdError)))

\* a /register handler that persists the new token before it is validated
RegisterAnswer_PersistEarly(c, resp) ==
    /\ calls[c].pc = "register"
    /\ LET w == [World(c) EXCEPT !.call.httpStatus = resp.statusCode,
                                 !.call.registered = resp.body.scalar_token]
           exchanged == exchangeCallback(resp)
       IN  IF exchanged.ok
           THEN Commit(c, checkToken(
                    [w EXCEPT !.store = setItem(w.store, exchanged.value),
                              !.call.trace = Append(@, Ev("setItem", exchanged.value))],
                    exchanged.value))
           ELSE Commit(c, connectThen(w, exchanged))

\* the integration manager answers POST /register
RegisterAnswer(c, resp) ==
    /\ calls[c].pc = "register"
    /\ LET w == [World(c) EXCEPT !.call.httpStatus = resp.statusCode,
                                 !.call.registered = resp.body.scalar_token]
           exchanged == exchangeCallback(resp)
       IN  IF exchanged.ok
           THEN Commit(c, checkToken(w, exchanged.value))
           ELSE Commit(c, connectThen(w, exchanged))

\* ----------------------------------------------------------- specification
Init ==
    /\ scalarToken = Null
    /\ localStorage \in {Null, EmptyString, "tokA"}
    /\ calls = [c \in Calls |-> IdleCall]
    /\ mxEvent = NoMxEvent /\ room = NoRoom /\ menu = NoMenu /\ pins = NoPins

Next ==
    \/ \E c \in Calls, kind \in {"connect", "getScalarToken"} : getScalarToken(c, kind)
    \/ \E c \in Calls, resp \in AccountResponses : AccountAnswer(c, resp)
    \/ \E c \in Calls, out \in TermsOutcomes : TermsAnswer(c, out)
    \/ \E c \in Calls, ok \in BOOLEAN : OpenIdAnswer(c, ok)
    \/ \E c \in Calls, resp \in RegisterResponses : RegisterAnswer(c, resp)

Spec == Init /\ [][Next]_vars

\* every request a call waits for is answered in the end: the integration
\* manager, the homeserver and the terms dialog all respond, and the
\* callback of an answer runs once the answer is there
Answered ==
    \A c \in Calls :
        /\ WF_vars(\E resp \in AccountResponses : AccountAnswer(c, resp))
        /\ WF_vars(\E out \in TermsOutcomes : TermsAnswer(c, out))
        /\ WF_vars(\E ok \in BOOLEAN : OpenIdAnswer(c, ok))
        /\ WF_vars(\E resp \in RegisterResponses : RegisterAnswer(c, resp))

\* The instance at a moment when no call is in flight, earlier calls
\* forgotten: a credential in memory was resolved by some connect(), so it
\* was read from storage or written to it, and storage holds a token since.
QuiescentInit ==
    /\ scalarToken \in {Null, "tokA"}
    /\ localStorage \in {Null, EmptyString} \cup Tokens
    /\ IF scalarToken = Null THEN localStorage # "tokB" ELSE localStorage \in Tokens
    /\ calls = [c \in Calls |-> IdleCall]
    /\ mxEvent = NoMxEvent /\ room = NoRoom /\ menu = NoMenu /\ pins = NoPins

\* the calls that are followed to their end
LiveNext ==
    \/ \E c \in 1..MaxLiveCalls, kind \in {"connect", "getScalarToken"} : getScalarToken(c, kind)
    \/ \E c \in Calls, resp \in AccountResponses : AccountAnswer(c, resp)
    \/ \E c \in Calls, out \in TermsOutcomes : TermsAnswer(c, out)
    \/ \E c \in Calls, ok \in BOOLEAN : OpenIdAnswer(c, ok)
    \/ \E c \in Calls, resp \in RegisterResponses : RegisterAnswer(c, resp)

LiveSpec == QuiescentInit /\ [][LiveNext]_vars /\ Answered

\* --------------------------------------- message context menu: operations
canCancel_NotSentOnly(eventStatus) == eventStatus = NOT_SENT

\* canCancel(eventStatus)
canCancel(eventStatus) == eventStatus = QUEUED \/ eventStatus = NOT_SENT

\* _isDirectMessageRoom(roomId)  and  _isAuthorOfMessage()
isDirectMessageRoom(rm) == Truthy(rm.dmUserId)
isAuthorOfMessage(ev) == ev.sender = Me

\* a _checkPermissions that does not look at the feature flag
checkPermissions_NoFeatureGate(rm) ==
    [ canRedact |-> rm.mayRedact, canPin |-> rm.mayPin ]

\* the state _checkPermissions sets
checkPermissions(rm) ==
    [ canRedact |-> rm.mayRedact,
      canPin |-> IF ~rm.featurePinning THEN FALSE ELSE rm.mayPin ]

\* _getReactions(filter): the pending events that annotate mxEvent and pass
\* the filter, a filter being the set of the events it lets through;
\* _getPendingReactions  and  _getUnsentReactions
getReactions(rm, filter) ==
    [k \in PendingKinds |->
        IF /\ k.rel_type # Undefined
           /\ k.rel_type = "m.annotation"
           /\ k.event_id = ThisEvent
           /\ k \in filter
        THEN rm.pending[k] ELSE 0]
PendingFilter == {e \in PendingKinds : canCancel(e.status)}
UnsentFilter == {e \in PendingKinds : e.status = NOT_SENT}
getPendingReactions(rm) == getReactions(rm, PendingFilter)
getUnsentReactions(rm) == getReactions(rm, UnsentFilter)

\* render(): the conditions under which it builds each button
allowCancel(ev, rm) ==
    \/ canCancel(ev.status)
    \/ canCancel(StatusOf(ev.replacingEvent))
    \/ canCancel(StatusOf(ev.localRedactionEvent))
    \/ Length(getPendingReactions(rm)) # 0

isSent(ev) == ~Truthy(ev.status) \/ ev.status = SENT

\* a Resend button that does not look at isRedacted()
resendButton_Redacted(ev) == ev.status = NOT_SENT

resendButton(ev) == ~ev.redacted /\ ev.status = NOT_SENT
resendEditButton(ev) == ~ev.redacted /\ StatusOf(ev.replacingEvent) = NOT_SENT
resendReactionsButton(ev, rm) == ~ev.redacted /\ Length(getUnsentReactions(rm)) # 0
resendRedactionButton(ev) == StatusOf(ev.localRedactionEvent) = NOT_SENT

\* a Remove button that is withheld in every direct conversation
redactButton_AnyDirect(ev, rm, state) ==
    /\ isSent(ev) /\ state.canRedact
    /\ ~isDirectMessageRoom(rm)

redactButton(ev, rm, state) ==
    /\ isSent(ev) /\ state.canRedact
    /\ ~(isDirectMessageRoom(rm) /\ ~isAuthorOfMessage(ev))

forwardButton(ev) == ev.actionable
pinButton(ev, state) == ev.actionable /\ state.canPin

render(ev, rm, state) ==
    {b \in {"resend", "resendEdit", "resendReactions", "resendRedaction",
            "redact", "cancel", "forward", "pin"} :
        \/ b = "resend" /\ resendButton(ev)
        \/ b = "resendEdit" /\ resendEditButton(ev)
        \/ b = "resendReactions" /\ resendReactionsButton(ev, rm)
        \/ b = "resendRedaction" /\ resendRedactionButton(ev)
        \/ b = "redact" /\ redactButton(ev, rm, state)
        \/ b = "cancel" /\ allowCancel(ev, rm)
        \/ b = "forward" /\ forwardButton(ev)
        \/ b = "pin" /\ pinButton(ev, state)}

\* setState(...) and the render() that follows it while the menu is up
setState(m, ev, rm, state) ==
    [m EXCEPT !.canRedact = state.canRedact, !.canPin = state.canPin,
              !.stale = FALSE,
              !.buttons = IF m.phase = "mounted" THEN render(ev, rm, state) ELSE {}]

\* closeMenu(): props.onFinished, which the host of the menu supplies, takes
\* the menu away; the component is torn down after that
closeMenu(m, handler) ==
    [m EXCEPT !.phase = "closed", !.buttons = {}, !.stale = FALSE, !.lastClick = handler]

\* Resend.removeFromQueue(event) on each event of a list: the events leave
\* the pending events of the room
removeFromQueue(pending, events) ==
    [k \in PendingKinds |-> pending[k] - events[k]]

\* the menu is opened on an event: the component is constructed,
\* componentWillMount subscribes and calls _checkPermissions, render() runs
componentWillMount(ev, rm) ==
    /\ menu.phase = "none"
    /\ mxEvent' = ev
    /\ room' = rm
    /\ menu' = setState([NoMenu EXCEPT !.phase = "mounted", !.listening = TRUE],
                        ev, rm, checkPermissions(rm))
    /\ UNCHANGED <<authVars, pins>>

\* the power levels of the room change and the client emits
\* RoomMember.powerLevel; _checkPermissions runs if it is still a listener
RoomMemberPowerLevel(mayRedact, mayPin) ==
    /\ menu.phase # "none"
    /\ <<mayRedact, mayPin>> # <<room.mayRedact, room.mayPin>>
    /\ room' = [room EXCEPT !.mayRedact = mayRedact, !.mayPin = mayPin]
    /\ menu' = IF menu.listening
               THEN setState(menu, mxEvent, room', checkPermissions(room'))
               ELSE menu
    /\ UNCHANGED <<mxEvent, authVars, pins>>

\* the send queue of the client takes up the message; the menu is not
\* rendered again for that
EventStatusSending ==
    /\ menu.phase = "mounted"
    /\ mxEvent.status = QUEUED
    /\ mxEvent' = [mxEvent EXCEPT !.status = SENDING]
    /\ menu' = [menu EXCEPT !.stale = TRUE]
    /\ UNCHANGED <<room, authVars, pins>>

\* a handler that cancels the message and nothing else
onCancelSendClick_MessageOnly ==
    /\ menu.phase = "mounted" /\ "cancel" \in menu.buttons
    /\ mxEvent' = [mxEvent EXCEPT !.status = IF canCancel(@) THEN CANCELLED ELSE @]
    /\ room' = room
    /\ menu' = closeMenu(menu, "onCancelSendClick")
    /\ UNCHANGED <<authVars, pins>>

\* the user clicks Cancel Sending: onCancelSendClick.  A removed edit or
\* redaction is no longer what replacingEvent() or localRedactionEvent()
\* returns, a removed message has status CANCELLED.
onCancelSendClick ==
    /\ menu.phase = "mounted" /\ "cancel" \in menu.buttons
    /\ LET editEvent == mxEvent.replacingEvent
           redactEvent == mxEvent.localRedactionEvent
           pendingReactions == getPendingReactions(room)
       IN  /\ mxEvent' = [mxEvent EXCEPT
                 !.replacingEvent =
                     IF editEvent.present /\ canCancel(editEvent.status) THEN NoEvent ELSE @,
                 !.localRedactionEvent =
                     IF redactEvent.present /\ canCancel(redactEvent.status) THEN NoEvent ELSE @,
                 !.status = IF canCancel(@) THEN CANCELLED ELSE @]
           /\ room' = [room EXCEPT !.pending =
                 IF Length(pendingReactions) # 0
                 THEN removeFromQueue(@, pendingReactions) ELSE @]
    /\ menu' = closeMenu(menu, "onCancelSendClick")
    /\ UNCHANGED <<authVars, pins>>

\* a teardown that leaves _checkPermissions subscribed
componentWillUnmount_KeepsListener ==
    /\ menu.phase \in {"mounted", "closed"}
    /\ menu' = [menu EXCEPT !.phase = "unmounted", !.buttons = {}, !.stale = FALSE]
    /\ mxEvent' = NoMxEvent
    /\ room' = [NoRoom EXCEPT !.mayRedact = room.mayRedact, !.mayPin = room.mayPin,
                              !.featurePinning = room.featurePinning]
    /\ UNCHANGED <<authVars, pins>>

\* componentWillUnmount: the listener is removed.  Nothing reads the props
\* of the component or the pending events afterwards, so they are dropped.
componentWillUnmount ==
    /\ menu.phase \in {"mounted", "closed"}
    /\ menu' = [menu EXCEPT !.phase = "unmounted", !.listening = FALSE, !.buttons = {},
                            !.stale = FALSE]
    /\ mxEvent' = NoMxEvent
    /\ room' = [NoRoom EXCEPT !.mayRedact = room.mayRedact, !.mayPin = room.mayPin,
                              !.featurePinning = room.featurePinning]
    /\ UNCHANGED <<authVars, pins>>

MenuInit ==
    /\ scalarToken = Null /\ localStorage = Null
    /\ calls = [c \in Calls |-> IdleCall]
    /\ mxEvent = NoMxEvent /\ room = NoRoom /\ menu = NoMenu /\ pins = NoPins

MenuNext ==
    \/ /\ menu.phase = "none"
       /\ \E ev \in MxEvents, rm \in Rooms : componentWillMount(ev, rm)
    \/ \E mayRedact \in BOOLEAN, mayPin \in BOOLEAN : RoomMemberPowerLevel(mayRedact, mayPin)
    \/ EventStatusSending
    \/ onCancelSendClick
    \/ componentWillUnmount

MenuSpec == MenuInit /\ [][MenuNext]_vars

\* ------------------------------------------------------------ pin clicks
\* Array.prototype.includes, indexOf (of an element that is there), push,
\* and splice(index, 1)
includes(list, id) == \E i \in 1..Len(list) : list[i] = id
indexOf(list, id) ==
    CHOOSE i \in 1..Len(list) : list[i] = id /\ \A j \in 1..(i - 1) : list[j] # id
push(list, id) == Append(list, id)
splice(list, index) ==
    [ j \in 1..(Len(list) - 1) |-> IF j < index THEN list[j] ELSE list[j + 1] ]

\* the promise getStateEvent returns, settled
Resolved(event) == [ rejected |-> FALSE, event |-> event, errcode |-> NoErrcode ]
Rejected(errcode) == [ rejected |-> TRUE, event |-> NoPinnedEvents, errcode |-> errcode ]

\* .catch(e => ...): the not-found error falls through with no event
getStateEventCatch(promise) ==
    IF ~promise.rejected THEN promise
    ELSE IF promise.errcode = M_NOT_FOUND THEN Resolved(NoPinnedEvents)
    ELSE promise

\* a callback that adds the id whether it is pinned or not
getStateEventThen_AlwaysPush(event) ==
    LET eventIds == IF event.present /\ event.hasPinned THEN event.pinned ELSE <<>>
    IN  push(eventIds, ThisEvent)

\* .then(event => ...): the list that goes into sendStateEvent.
\* (event ? event.pinned : []) || [] is the list of the event, or the
\* empty list for no event or no `pinned`.
getStateEventThen(event) ==
    LET eventIds == IF event.present /\ event.hasPinned THEN event.pinned ELSE <<>>
    IN  IF ~includes(eventIds, ThisEvent)
        THEN push(eventIds, ThisEvent)
        ELSE splice(eventIds, indexOf(eventIds, ThisEvent))

Ended == {"sent", "rejected", "failed"}

\* the user clicks Pin Message / Unpin Message: onPinClick asks for the
\* pinned events and closes the menu without waiting for the answer
onPinClick ==
    /\ menu.phase = "mounted" /\ "pin" \in menu.buttons
    /\ \E i \in 1..MaxClicks :
          /\ pins.clicks[i].pc = "idle"
          /\ \A j \in 1..(i - 1) : pins.clicks[j].pc # "idle"
          /\ pins' = [pins EXCEPT
                !.clicks[i] = [IdleClick EXCEPT
                    !.pc = "fetching",
                    !.alone = \A j \in 1..(i - 1) : pins.clicks[j].pc \in Ended]]
    /\ menu' = closeMenu(menu, "onPinClick")
    /\ UNCHANGED <<mxEvent, room, authVars>>

\* getStateEvent answers: the content of the state event, M_NOT_FOUND when
\* the room has none, or another error; the catch and the then run
GetStateEventAnswer(i, failed) ==
    /\ pins.clicks[i].pc = "fetching"
    /\ LET promise == IF failed THEN Rejected(M_FORBIDDEN)
                       ELSE IF pins.server.present THEN Resolved(pins.server)
                       ELSE Rejected(M_NOT_FOUND)
           caught == getStateEventCatch(promise)
       IN  pins' = [pins EXCEPT !.clicks[i] =
                IF caught.rejected
                THEN [@ EXCEPT !.pc = "failed", !.errcode = promise.errcode]
                ELSE [@ EXCEPT !.pc = "sending", !.errcode = promise.errcode,
                               !.eventIds = getStateEventThen(caught.event)]]
    /\ UNCHANGED <<mxEvent, room, menu, authVars>>

\* sendStateEvent reaches the homeserver, which takes the new content or
\* refuses it; nothing in the menu waits for that
SendStateEventAnswer(i, accepted) ==
    /\ pins.clicks[i].pc = "sending"
    /\ pins' = [pins EXCEPT
          !.server = IF accepted THEN PinnedContent(pins.clicks[i].eventIds) ELSE @,
          !.clicks[i] = [@ EXCEPT !.pc = IF accepted THEN "sent" ELSE "rejected",
                                  !.eventIds = <<>>]]
    /\ UNCHANGED <<mxEvent, room, menu, authVars>>

\* another client writes m.room.pinned_events after the first click; one
\* such write is followed (what it wrote before is the initial content)
OtherWriter(content) ==
    /\ pins.clicks[1].pc # "idle" /\ ~pins.otherWriter
    /\ pins.server # content
    /\ pins' = [pins EXCEPT !.server = content, !.original = NoPinnedEvents,
                            !.otherWriter = TRUE]
    /\ UNCHANGED <<mxEvent, room, menu, authVars>>

\* the menu is opened again: a new component
NewMenu ==
    /\ menu.phase = "unmounted"
    /\ menu' = NoMenu /\ mxEvent' = NoMxEvent /\ room' = NoRoom
    /\ UNCHANGED <<authVars, pins>>

\* the menus followed for the pin clicks: on a sent message of the viewer
\* with actionable content, in a room with nothing pending and the pinning
\* feature on
PinMxEvents == { [NoMxEvent EXCEPT !.status = SENT, !.actionable = TRUE] }
PinRooms ==
    { [NoRoom EXCEPT !.mayPin = mayPin, !.featurePinning = TRUE] : mayPin \in BOOLEAN }

PinInit ==
    /\ scalarToken = Null /\ localStorage = Null
    /\ calls = [c \in Calls |-> IdleCall]
    /\ mxEvent = NoMxEvent /\ room = NoRoom /\ menu = NoMenu
    /\ \E content \in PinnedContents \cup {NoPinnedEvents} :
          pins = [NoPins EXCEPT !.server = content, !.original = content]

PinNext ==
    \/ /\ menu.phase = "none"
       /\ \E ev \in PinMxEvents, rm \in PinRooms : componentWillMount(ev, rm)
    \/ onPinClick
    \/ \E i \in 1..MaxClicks, failed \in BOOLEAN : GetStateEventAnswer(i, failed)
    \/ \E i \in 1..MaxClicks, accepted \in BOOLEAN : SendStateEventAnswer(i, accepted)
    \/ \E content \in PinnedContents : OtherWriter(content)
    \/ componentWillUnmount
    \/ NewMenu

PinSpec == PinInit /\ [][PinNext]_vars

\* ------------------------------------------------------ reading a history
\* number of events `op` in a trace, and the positions they are at
Positions(trace, op) == {i \in DOMAIN trace : trace[i].op = op}
Count(trace, op) == Cardinality(Positions(trace, op))
\* the call has a cached candidate and /account has answered about it
CachedVerdict(call) ==
    IF call.source # "none" /\ Len(call.verdicts) >= 1 THEN call.verdicts[1].verdict ELSE "none"
\* the candidate getScalarToken picked: in memory first, storage second
Candidate(call) == IF call.source = "memory" THEN call.memAtStart ELSE call.storeAtStart
\* this.hasCredentials()
hasCredentials == scalarToken \notin {Null, Undefined}
\* in this step call c resolves, settles
Resolves(c) == calls[c].traced /\ calls'[c].traced /\ ~Done(calls[c]) /\ calls'[c].pc = "resolved"
Settles(c) == ~Done(calls[c]) /\ Done(calls'[c])

\* ------------------------------------------------------------------ claims

\* C1: with no credential in memory and none in storage, a call that resolves
\* has issued one OpenID request followed by one /register request and one
\* /account request, and storage holds the credential it resolves to.
C1_FreshAcquisition ==
    [][\A c \in Calls :
        Resolves(c) /\ calls'[c].source = "none" =>
            LET t == calls'[c].trace IN
            /\ Count(t, "getOpenIdToken") = 1
            /\ Count(t, "POST /register") = 1
            /\ Count(t, "GET /account") = 1
            /\ \A i \in Positions(t, "getOpenIdToken"), j \in Positions(t, "POST /register") : i < j
            /\ Truthy(calls'[c].result)
            /\ localStorage' = calls'[c].result]_vars

C1_Witness ==
    \E c \in Calls :
        /\ Traced(c) /\ calls[c].pc = "resolved" /\ calls[c].source = "none"
        /\ ~Truthy(calls[c].memAtStart) /\ ~Truthy(calls[c].storeAtStart)

\* C2: once /account has answered the cached candidate with somebody else's
\* user id, the call has started exactly one exchange, and it never starts
\* another, however that exchange ends.
C2_MismatchOneExchange ==
    \A c \in Calls :
        Traced(c) /\ CachedVerdict(calls[c]) = "mismatch" =>
            /\ Count(calls[c].trace, "getOpenIdToken") = 1
            /\ Count(calls[c].trace, "POST /register") <= 1

C2_Witness ==
    \E c \in Calls :
        /\ Traced(c) /\ CachedVerdict(calls[c]) = "mismatch"
        /\ calls[c].pc = "rejected" /\ Count(calls[c].trace, "POST /register") = 1

\* C3: a step that leaves the terms presentation of a call pending (the step
\* that starts it, or any step while it waits) issues no OpenID request and no
\* /register request for that call.
ExchangeRequests(call) == Count(call.trace, "getOpenIdToken") + Count(call.trace, "POST /register")
C3_NoExchangeWhileTermsPending ==
    [][\A c \in Calls :
        calls[c].traced /\ calls'[c].traced /\ calls'[c].terms = "pending" =>
            ExchangeRequests(calls'[c]) = ExchangeRequests(calls[c])]_vars

C3_Witness ==
    \E c \in Calls : Traced(c) /\ calls[c].terms = "pending" /\ calls[c].phase = "cached"

\* C4: after a terms-not-signed answer about the cached candidate the call
\* never starts an exchange: agreement resolves it to the candidate, any
\* rejection of the terms presentation rejects it.
C4_TermsNeverRetried ==
    \A c \in Calls :
        Traced(c) /\ CachedVerdict(calls[c]) = "terms" =>
            /\ Count(calls[c].trace, "getOpenIdToken") = 0
            /\ Len(calls[c].termsLog) >= 1 /\ calls[c].termsLog[1] = "agreed" =>
                   calls[c].pc = "resolved" /\ calls[c].result = Candidate(calls[c])
            /\ Len(calls[c].termsLog) >= 1 /\ calls[c].termsLog[1] # "agreed" =>
                   calls[c].pc = "rejected"

\* C5: every credential a call resolves to (and so every credential connect()
\* stores and registerForToken persists) has had, in that call, an /account
\* answer with a 2xx status and the current user's id.
C5_ResolvedMeansOwnerChecked ==
    \A c \in Calls :
        Traced(c) /\ calls[c].pc = "resolved" =>
            \E i \in DOMAIN calls[c].verdicts :
                calls[c].verdicts[i] = [token |-> calls[c].result, verdict |-> "owner"]

\* C6: when a call whose cached candidate failed validation for a reason other
\* than the terms settles, that candidate is neither in memory nor in storage.
C6_FailedCandidateDiscarded ==
    [][\A c \in Calls :
        /\ Settles(c) /\ calls'[c].traced
        /\ CachedVerdict(calls'[c]) \in {"mismatch", "failed"}
        => /\ scalarToken' # Candidate(calls'[c])
           /\ localStorage' # Candidate(calls'[c])]_vars

\* C7: the candidate is the in-memory credential if there is one, else the
\* persisted one; a candidate that validates is what the call resolves to,
\* with no exchange; an exchange is started only when there is no candidate
\* or /account answered the candidate with a failure other than the terms.
C7_CandidateOrder ==
    \A c \in Calls :
        Traced(c) =>
            LET call == calls[c] IN
            /\ Truthy(call.memAtStart) => call.source = "memory"
            /\ ~Truthy(call.memAtStart) /\ Truthy(call.storeAtStart) => call.source = "storage"
            /\ call.source # "none" =>
                   /\ call.trace[1] = Ev("GET /account", Candidate(call))
                   /\ CachedVerdict(call) = "owner" =>
                          /\ call.pc = "resolved" /\ call.result = Candidate(call)
                          /\ Count(call.trace, "getOpenIdToken") = 0
            /\ Count(call.trace, "getOpenIdToken") >= 1 =>
                   \/ call.source = "none"
                   \/ CachedVerdict(call) \in {"mismatch", "failed"}

\* C8: two getScalarToken() calls made one after the other, nothing else
\* running, each told by /account that the cached candidate is the current
\* user's: two /account requests, no exchange request, both resolve to the
\* candidate, memory and storage are as before the first call.
OneAfterTheOther(c1, c2) ==
    /\ c1 < c2 /\ Traced(c1) /\ Traced(c2)
    /\ calls[c1].kind = "getScalarToken" /\ calls[c2].kind = "getScalarToken"
    /\ Done(calls[c1]) /\ Done(calls[c2])
    /\ c1 \in calls[c2].doneAtStart
    /\ \A d \in Calls \ {c1, c2} : calls[d].pc = "idle" \/ d \in calls[c1].doneAtStart
ValidatedAsOwner(call) ==
    /\ call.source # "none"
    /\ \A i \in DOMAIN call.verdicts : call.verdicts[i].verdict = "owner"
C8_TwoCallsTwoValidations ==
    \A c1, c2 \in Calls :
        OneAfterTheOther(c1, c2) /\ ValidatedAsOwner(calls[c1]) /\ ValidatedAsOwner(calls[c2]) =>
            /\ Count(calls[c1].trace, "GET /account") + Count(calls[c2].trace, "GET /account") = 2
            /\ ExchangeRequests(calls[c1]) + ExchangeRequests(calls[c2]) = 0
            /\ calls[c1].pc = "resolved" /\ calls[c2].pc = "resolved"
            /\ calls[c1].result = Candidate(calls[c1])
            /\ calls[c2].result = Candidate(calls[c1])
            /\ scalarToken = calls[c1].memAtStart
            /\ localStorage = calls[c1].storeAtStart

C8_Witness ==
    \E c1, c2 \in Calls :
        OneAfterTheOther(c1, c2) /\ ValidatedAsOwner(calls[c1]) /\ ValidatedAsOwner(calls[c2])

\* C9: when a call resolves after an exchange, the scalar_token of the
\* /register answer is the token its last /account request carried, the value
\* it resolves to and the value in storage.
C9_SameTokenEndToEnd ==
    [][\A c \in Calls :
        Resolves(c) /\ Count(calls'[c].trace, "getOpenIdToken") >= 1 =>
            LET call == calls'[c]
                sent == {call.trace[i].val : i \in Positions(call.trace, "GET /account") \cap
                            {j \in DOMAIN call.trace : \A k \in Positions(call.trace, "POST /register") : k < j}}
            IN  /\ Truthy(call.registered)
                /\ sent = {call.registered}
                /\ call.result = call.registered
                /\ localStorage' = call.registered]_vars

C9_Witness ==
    \E c \in Calls :
        /\ Traced(c) /\ calls[c].pc = "resolved" /\ calls[c].source = "storage"
        /\ calls[c].registered = "tokB" /\ calls[c].result = "tokB"

\* C10: hasCredentials() is false at first; it becomes true only in a step in
\* which a connect() resolves, and then memory holds what that connect's
\* acquisition resolved to; once true it stays true; no step of a
\* getScalarToken() call changes memory.
C10_HasCredentials ==
    /\ ~hasCredentials
    /\ [][/\ ~hasCredentials /\ hasCredentials' =>
                \E c \in Calls : calls[c].kind = "connect" /\ Settles(c)
          /\ \A c \in Calls : Resolves(c) /\ calls[c].kind = "connect" =>
                scalarToken' = calls'[c].result /\ hasCredentials'
          /\ hasCredentials => hasCredentials'
          /\ (\A c \in Calls : Settles(c) => calls[c].kind = "getScalarToken") =>
                scalarToken' = scalarToken]_vars

C10_Witness ==
    \E c, d \in Calls :
        /\ Traced(c) /\ calls[c].kind = "connect" /\ calls[c].pc = "resolved"
        /\ Traced(d) /\ calls[d].kind = "getScalarToken" /\ calls[d].pc = "resolved"
        /\ calls[d].result # scalarToken
        /\ hasCredentials

\* C11: whenever hasCredentials() reports true the in-memory credential is a
\* non-empty string: it is never the empty string, null or undefined then,
\* and every value connect() stored came through the truthiness tests of
\* getScalarToken and of the /register callback.
C11_CredentialNonEmpty ==
    /\ hasCredentials => (Truthy(scalarToken) /\ scalarToken \in Tokens)
    /\ \A c \in Calls :
         (Traced(c) /\ calls[c].pc = "resolved") => Truthy(calls[c].result)

\* a connect() that validated the empty string would have stored it: here the
\* storage entry was "" and the credential in memory is the exchanged token
C11_Witness ==
    /\ hasCredentials
    /\ \E c \in Calls :
         /\ Traced(c) /\ calls[c].kind = "connect" /\ calls[c].pc = "resolved"
         /\ calls[c].storeAtStart = EmptyString
         /\ calls[c].result = scalarToken

\* what /account answered about the credential /register returned, "none"
\* while (or if) that validation was never answered
ValidationOfNew(call) ==
    IF /\ \E i \in Positions(call.trace, "POST /register") :
            \E j \in Positions(call.trace, "GET /account") : j > i
       /\ Len(call.verdicts) >= 1 /\ call.pc # "account"
    THEN call.verdicts[Len(call.verdicts)].verdict
    ELSE "none"
\* the call went through an exchange and has ended without a credential that
\* passed validation or whose terms were agreed
ExchangeFailed(call) ==
    /\ Count(call.trace, "getOpenIdToken") >= 1
    /\ Done(call)
    /\ ~ \/ ValidationOfNew(call) = "owner"
         \/ /\ ValidationOfNew(call) = "terms"
            /\ Len(call.termsLog) >= 1
            /\ call.termsLog[Len(call.termsLog)] = "agreed"
\* nothing outside call c has settled since call c started
Undisturbed(c) ==
    \A d \in Calls \ {c} : d \in calls[c].doneAtStart \/ ~Done(calls[d])

\* C12: a connect() whose fresh exchange fails rejects, and leaves the
\* in-memory credential and the storage entry as they were before the call:
\* the rejecting step writes neither, the call wrote nothing earlier, and
\* when no other call settled meanwhile both hold their values from the
\* start of the call.
C12_FailedConnectChangesNothing ==
    /\ [][\A c \in Calls :
            (/\ calls[c].kind = "connect" /\ calls[c].phase = "exchange"
             /\ Settles(c) /\ calls'[c].pc = "rejected")
            => (scalarToken' = scalarToken /\ localStorage' = localStorage)]_vars
    /\ [](\A c \in Calls :
            (Traced(c) /\ calls[c].kind = "connect" /\ ExchangeFailed(calls[c]))
            => /\ calls[c].pc = "rejected"
               /\ Count(calls[c].trace, "setItem") = 0
               /\ Undisturbed(c) => /\ scalarToken = calls[c].memAtStart
                                    /\ localStorage = calls[c].storeAtStart
                                    /\ hasCredentials
                                         = (calls[c].memAtStart \notin {Null, Undefined}))

\* a connect() made with a credential in memory that failed validation, went
\* to the exchange, and was rejected there
C12_Witness ==
    \E c \in Calls :
        /\ Traced(c) /\ calls[c].kind = "connect" /\ ExchangeFailed(calls[c])
        /\ calls[c].pc = "rejected" /\ Undisturbed(c)
        /\ calls[c].memAtStart \in Tokens /\ calls[c].storeAtStart \in Tokens
        /\ scalarToken = calls[c].memAtStart

\* the error the failed exchange of a settled call produced, read off the
\* requests the call issued and the answers it got
ExchangeError(call) ==
    IF Count(call.trace, "POST /register") = 0 THEN {OpenIdError}
    ELSE IF ValidationOfNew(call) = "none"
         THEN IF call.httpStatus = NoStatus THEN {TransportError}
              ELSE IF ~StatusIs2(call.httpStatus) THEN {StatusCodeError(call.httpStatus)}
              ELSE {JsError("Missing scalar_token in response")}
    ELSE IF ValidationOfNew(call) = "mismatch"
         THEN {JsError("Scalar token is owned by someone else")}
    ELSE IF ValidationOfNew(call) = "failed"
         THEN {getAccountNameCallback(resp).error :
                 resp \in {r \in AccountResponses :
                             Verdict(r) = "failed" /\ r.statusCode = call.httpStatus}}
    ELSE {presentTermsOutcome(out, call.token).error : out \in TermsOutcomes \ {"agreed"}}

\* every failure inside the exchange path rejects the call with the error
\* of that failure, after one exchange at most and without a storage write
ExchangeFailurePropagates ==
    \A c \in Calls :
        (Traced(c) /\ ExchangeFailed(calls[c]))
        => /\ calls[c].pc = "rejected"
           /\ calls[c].error \in ExchangeError(calls[c])
           /\ Count(calls[c].trace, "getOpenIdToken") = 1
           /\ Count(calls[c].trace, "POST /register") <= 1
           /\ Count(calls[c].trace, "setItem") = 0

\* C13: only a non-terms validation failure of a cached credential is
\* recovered by an exchange, and any failure inside the exchange path makes
\* the call reject with that same error, with no second exchange and
\* nothing written to storage.
C13_OnlyCachedFailureRecovered ==
    /\ \A c \in Calls :
         (Traced(c) /\ calls[c].source # "none"
                    /\ Count(calls[c].trace, "getOpenIdToken") >= 1)
         => CachedVerdict(calls[c]) \in {"mismatch", "failed"}
    /\ ExchangeFailurePropagates

\* C14: storage is written only as the last step of a successful fresh
\* exchange, after the new credential passed validation or its terms were
\* agreed; a call served from a cached credential, a validation that is
\* answered, and a failed call leave storage as it is; the storage entry is
\* never removed.
C14_StorageWrittenOnlyByExchange ==
    /\ [][/\ localStorage' # localStorage
            => \E c \in Calls :
                  /\ Settles(c) /\ calls[c].phase = "exchange"
                  /\ calls[c].pc \in {"account", "terms"}
                  /\ localStorage' = calls[c].token /\ Truthy(localStorage')
                  /\ calls'[c].traced => /\ calls'[c].pc = "resolved"
                                         /\ calls'[c].result = localStorage'
          /\ localStorage # Null => localStorage' # Null
          /\ \A c \in Calls :
                (calls[c].phase = "cached" /\ calls'[c] # calls[c]
                                          /\ calls'[c].phase = "cached")
                => localStorage' = localStorage]_vars
    /\ [](\A c \in Calls :
            Traced(c)
            => LET call == calls[c]
                   writes == Positions(call.trace, "setItem")
               IN  /\ writes \subseteq {Len(call.trace)}
                   /\ writes # {}
                        => /\ call.pc = "resolved" /\ ~ExchangeFailed(call)
                           /\ Count(call.trace, "getOpenIdToken") = 1
                           /\ call.trace[Len(call.trace)].val = call.registered
                           /\ call.trace[Len(call.trace) - 1].op
                                \in {"GET /account", "presentTermsForServices"}
                   /\ (call.pc = "resolved" /\ Count(call.trace, "getOpenIdToken") = 0)
                        => writes = {}
                   /\ call.pc = "rejected" => writes = {})

\* an exchange replaced the token in storage by the one /register returned
C14_Witness ==
    \E c \in Calls :
        /\ Traced(c) /\ calls[c].pc = "resolved"
        /\ calls[c].storeAtStart = "tokA"
        /\ Count(calls[c].trace, "setItem") = 1
        /\ calls[c].registered = "tokB" /\ localStorage = "tokB"

\* C15: a non-2xx HTTP answer without the terms-not-signed errcode is
\* reported as an error that carries the HTTP status code, whether it
\* answers the validation request (/account) or the exchange request
\* (/register).
C15_StatusCodeReported ==
    \A c \in Calls :
        (/\ Traced(c) /\ calls[c].pc = "rejected"
         /\ calls[c].httpStatus # NoStatus /\ calls[c].httpStatus \div 100 # 2
         /\ ~InstanceOfTermsNotSignedError(calls[c].error))
        => calls[c].error.statusCode = calls[c].httpStatus

\* the part of C15 that is about /register
RegisterStatusReported ==
    \A c \in Calls :
        (/\ Traced(c) /\ calls[c].pc = "rejected"
         /\ calls[c].httpStatus # NoStatus /\ calls[c].httpStatus \div 100 # 2
         /\ ValidationOfNew(calls[c]) = "none")
        => calls[c].error = StatusCodeError(calls[c].httpStatus)

\* the calls whose exchange flow (getOpenIdToken, /register, validation of
\* the new credential, its terms presentation) has started and not ended
ExchangesInFlight == {c \in Calls : calls[c].phase = "exchange" /\ ~Done(calls[c])}

\* C16: at every moment, however connect() and getScalarToken() calls on
\* the instance overlap, at most one credential-exchange flow is in flight.
C16_AtMostOneExchangeInFlight == Cardinality(ExchangesInFlight) <= 1

\* the operations of a trace, in order
Ops(trace) == [i \in DOMAIN trace |-> trace[i].op]
\* the part of a trace from its getOpenIdToken request on
ExchangeTrace(trace) ==
    LET first == CHOOSE i \in Positions(trace, "getOpenIdToken") :
                     \A j \in Positions(trace, "getOpenIdToken") : i <= j
    IN  SubSeq(trace, first, Len(trace))
\* s is a prefix of t
IsPrefix(s, t) == Len(s) <= Len(t) /\ s = SubSeq(t, 1, Len(s))
\* the order of a successful exchange, with and without a terms presentation
ExchangeOrders ==
    { <<"getOpenIdToken", "POST /register", "GET /account", "setItem">>,
      <<"getOpenIdToken", "POST /register", "GET /account",
        "presentTermsForServices", "setItem">> }

\* C17: an exchange attempt makes one getOpenIdToken request and sends the
\* token it got in one POST /register request, in the order getOpenIdToken,
\* /register, validation of the new credential, storage write; the OpenID
\* token is never written to storage nor to this.scalarToken.
C17_OneOpenIdTokenOneRegister ==
    /\ scalarToken # OpenIdToken /\ localStorage # OpenIdToken
    /\ \A c \in Calls :
         (Traced(c) /\ Count(calls[c].trace, "getOpenIdToken") >= 1)
         => LET call == calls[c]
                ex == ExchangeTrace(call.trace)
            IN  /\ Count(call.trace, "getOpenIdToken") = 1
                /\ Count(call.trace, "POST /register") <= 1
                /\ \E order \in ExchangeOrders : IsPrefix(Ops(ex), order)
                /\ (call.pc # "openid" /\ call.error # OpenIdError)
                     => /\ Count(call.trace, "POST /register") = 1
                        /\ ex[2].val = OpenIdToken
                /\ \A i \in DOMAIN call.trace :
                      call.trace[i].op # "POST /register"
                      => call.trace[i].val # OpenIdToken
                /\ call.result # OpenIdToken /\ call.token # OpenIdToken

\* a call that went from a failed cached credential through the whole
\* exchange and the terms of the new credential to the storage write
C17_Witness ==
    \E c \in Calls :
        /\ Traced(c) /\ calls[c].pc = "resolved"
        /\ Ops(calls[c].trace) = <<"GET /account", "getOpenIdToken", "POST /register",
                                   "GET /account", "presentTermsForServices", "setItem">>
        /\ calls[c].trace[3].val = OpenIdToken
        /\ localStorage = calls[c].registered

\* ------------------------------------------- claims about the message menu
\* the button is in what render() returned last, the menu being shown
Offered(button) == menu.phase = "mounted" /\ button \in menu.buttons
\* the menu is shown and no event has changed since it was rendered
UpToDate == menu.phase = "mounted" /\ ~menu.stale
Cancelable == {QUEUED, NOT_SENT}
\* some pending event of the room is a reaction to mxEvent with this status
PendingReaction(statuses) ==
    \E k \in PendingKinds :
        /\ room.pending[k] > 0
        /\ k.rel_type = "m.annotation" /\ k.event_id = ThisEvent
        /\ k.status \in statuses

\* C18, as stated: Resend is offered if and only if the status of the
\* message is NOT_SENT, whatever the other inputs (redacted or not, edit
\* and redaction status, reactions, permissions).
C18_ResendIffNotSent ==
    UpToDate => (Offered("resend") <=> mxEvent.status = NOT_SENT)

\* C18, amended: Resend is offered if and only if the message is not
\* redacted and its status is NOT_SENT, whatever the other inputs.
C18_ResendIffNotSentAndNotRedacted ==
    UpToDate
    => (Offered("resend") <=> (~mxEvent.redacted /\ mxEvent.status = NOT_SENT))

\* Resend offered on an unsent message that has an unsent edit and a queued
\* redaction of its own, to a viewer who may neither redact nor pin
C18_Witness ==
    /\ Offered("resend")
    /\ mxEvent.replacingEvent = LocalEvent(NOT_SENT)
    /\ mxEvent.localRedactionEvent = LocalEvent(QUEUED)
    /\ ~menu.canRedact /\ ~menu.canPin

\* C19: Cancel Sending is offered if and only if the message, its pending
\* edit, its local redaction or a pending reaction to it has status QUEUED
\* or NOT_SENT; an absent edit or redaction, or one in another status, does
\* not enable it.
C19_CancelIffSomethingCancelable ==
    UpToDate
    => (Offered("cancel")
        <=> \/ mxEvent.status \in Cancelable
            \/ /\ mxEvent.replacingEvent.present
               /\ mxEvent.replacingEvent.status \in Cancelable
            \/ /\ mxEvent.localRedactionEvent.present
               /\ mxEvent.localRedactionEvent.status \in Cancelable
            \/ PendingReaction(Cancelable))

\* Cancel Sending offered for a queued reaction alone: the message is sent,
\* has no edit, and its redaction is being sent
C19_Witness ==
    /\ Offered("cancel")
    /\ mxEvent.status = SENT
    /\ ~mxEvent.replacingEvent.present
    /\ mxEvent.localRedactionEvent = LocalEvent(SENDING)
    /\ PendingReaction({QUEUED}) /\ ~PendingReaction({NOT_SENT})

\* C20: Remove is offered if and only if the status of the message is
\* absent or SENT, canRedact is set, and it is not the case that the room
\* is a direct conversation and the viewer is not the author.
C20_RedactIffSentAndAllowed ==
    UpToDate
    => (Offered("redact")
        <=> /\ mxEvent.status \in {Null, SENT}
            /\ menu.canRedact
            /\ ~(room.dmUserId # Undefined /\ mxEvent.sender # Me))

\* Remove offered in a direct conversation, on the viewer's own message
C20_Witness ==
    /\ Offered("redact")
    /\ room.dmUserId = Other /\ mxEvent.sender = Me
    /\ mxEvent.status = Null

\* C21: the pin toggle is offered if and only if the content is actionable
\* and canPin is set; canPin is never set while feature_pinning is disabled,
\* whatever the room permits, so the toggle is never offered then.
C21_PinIffActionableAndCanPin ==
    /\ UpToDate
         => (Offered("pin") <=> (mxEvent.actionable /\ menu.canPin))
    /\ ~room.featurePinning => (~menu.canPin /\ ~Offered("pin"))

\* the room lets the viewer pin an actionable message, the feature is
\* disabled, and the toggle is not offered
C21_Witness ==
    /\ menu.phase = "mounted"
    /\ mxEvent.actionable /\ room.mayPin /\ ~room.featurePinning
    /\ ~Offered("pin")

C23_EveryCallEnds ==
    /\ \A c \in Calls : (calls[c].pc # "idle") ~> Done(calls[c])
    /\ [](\A c \in Calls :
            Traced(c)
            => /\ Count(calls[c].trace, "getOpenIdToken") <= 1
               /\ Count(calls[c].trace, "POST /register") <= 1
               /\ Count(calls[c].trace, "GET /account") <= 2
               /\ Count(calls[c].trace, "presentTermsForServices") <= 2)

\* a call that ended after as many requests as a call can make: two
\* validations, two terms presentations and one exchange
C23_Witness ==
    \E c \in Calls :
        /\ Traced(c) /\ Done(calls[c])
        /\ Count(calls[c].trace, "getOpenIdToken") = 1
        /\ Count(calls[c].trace, "GET /account") = 2
        /\ Count(calls[c].trace, "presentTermsForServices") = 2

\* two connect() calls that overlapped, each started with no credential in
\* memory or storage, have both resolved, and no other call has settled
\* since the first of them started
TwoOverlappingConnects(c1, c2) ==
    /\ c1 # c2 /\ Traced(c1) /\ Traced(c2)
    /\ \A c \in {c1, c2} :
         /\ calls[c].kind = "connect" /\ calls[c].pc = "resolved"
         /\ calls[c].source = "none"
    /\ c1 \notin calls[c2].doneAtStart /\ c2 \notin calls[c1].doneAtStart
    /\ \A d \in Calls \ {c1, c2} :
         ~Done(calls[d]) \/ d \in calls[c1].doneAtStart \cap calls[c2].doneAtStart

\* C24: after two overlapping connect() calls started with no cached
\* credential have both resolved, the credential in memory and the one in
\* storage are the same token, whatever the order of the answers.
C24_OverlappingConnectsAgree ==
    \A c1, c2 \in Calls :
        TwoOverlappingConnects(c1, c2)
        => /\ scalarToken \in Tokens
           /\ localStorage = scalarToken
           /\ scalarToken \in {calls[c1].result, calls[c2].result}

\* the two calls were given different tokens by /register
C24_Witness ==
    \E c1, c2 \in Calls :
        /\ TwoOverlappingConnects(c1, c2)
        /\ calls[c1].result = "tokA" /\ calls[c2].result = "tokB"
        /\ localStorage = scalarToken

\* the step is a click on Cancel Sending
CancelClicked ==
    /\ menu.phase = "mounted"
    /\ menu'.phase = "closed" /\ menu'.lastClick = "onCancelSendClick"

\* the edit, or the local redaction, was there and is gone
Removed(before, after) ==
    /\ before.present
    /\ ~after.present

\* C25: a click on Cancel Sending removes exactly the cancelable events:
\* the edit and the local redaction when their status is QUEUED or
\* NOT_SENT, every pending reaction to the message with such a status, and
\* the message itself when its status is QUEUED or NOT_SENT; every other
\* event stays as it was.  When the menu was rendered from the events as
\* they are at the click, at least one event is removed.  The menu is
\* closed afterwards.
C25_CancelRemovesExactlyCancelable ==
    [][CancelClicked =>
        /\ Offered("cancel")
        /\ mxEvent'.replacingEvent =
              IF mxEvent.replacingEvent.present
                 /\ mxEvent.replacingEvent.status \in Cancelable
              THEN NoEvent ELSE mxEvent.replacingEvent
        /\ mxEvent'.localRedactionEvent =
              IF mxEvent.localRedactionEvent.present
                 /\ mxEvent.localRedactionEvent.status \in Cancelable
              THEN NoEvent ELSE mxEvent.localRedactionEvent
        /\ mxEvent'.status =
              IF mxEvent.status \in Cancelable THEN CANCELLED ELSE mxEvent.status
        /\ \A k \in PendingKinds :
              room'.pending[k] =
                IF /\ k.rel_type = "m.annotation" /\ k.event_id = ThisEvent
                   /\ k.status \in Cancelable
                THEN 0 ELSE room.pending[k]
        /\ mxEvent' = [mxEvent EXCEPT !.replacingEvent = mxEvent'.replacingEvent,
                                      !.localRedactionEvent = mxEvent'.localRedactionEvent,
                                      !.status = mxEvent'.status]
        /\ room' = [room EXCEPT !.pending = room'.pending]
        /\ ~menu.stale
             => \/ Removed(mxEvent.replacingEvent, mxEvent'.replacingEvent)
                \/ Removed(mxEvent.localRedactionEvent, mxEvent'.localRedactionEvent)
                \/ mxEvent.status # CANCELLED /\ mxEvent'.status = CANCELLED
                \/ \E k \in PendingKinds : room'.pending[k] < room.pending[k]
        /\ menu'.phase = "closed" /\ menu'.buttons = {}
    ]_vars

\* after a click on Cancel Sending: the message and its edit are cancelled,
\* the redaction that was being sent is still there, and so are a reaction
\* to the message that is being sent and a pending event that is no
\* reaction to it
C25_Witness ==
    /\ menu.phase = "closed" /\ menu.lastClick = "onCancelSendClick"
    /\ mxEvent.status = CANCELLED
    /\ ~mxEvent.replacingEvent.present
    /\ mxEvent.localRedactionEvent = LocalEvent(SENDING)
    /\ PendingReaction({SENDING}) /\ ~PendingReaction(Cancelable)
    /\ \E k \in PendingKinds : room.pending[k] > 0 /\ k.event_id = OtherEvent

\* the list a toggle of this message makes of a list: the id at the end
\* when it was not there, all the others, in their order, when it was
IsThis(id) == id = ThisEvent
IsNotThis(id) == id # ThisEvent
Toggled(list) ==
    IF SelectSeq(list, IsThis) = <<>> THEN list \o <<ThisEvent>>
    ELSE SelectSeq(list, IsNotThis)
Ids(list) == { list[i] : i \in 1..Len(list) }
\* the list of a content: none without the state event or without `pinned`
ListOf(content) == IF content.present /\ content.hasPinned THEN content.pinned ELSE <<>>
\* the step in which getStateEvent answers click i
Fetched(i) == pins.clicks[i].pc = "fetching" /\ pins'.clicks[i].pc # "fetching"

\* two pin clicks and no more, the second made when the first had ended,
\* both written, and no other writer since the first click
TwoClicksWritten ==
    /\ pins.clicks[1].pc = "sent"
    /\ pins.clicks[2].pc = "sent"
    /\ pins.clicks[2].alone
    /\ \A i \in 3..MaxClicks : pins.clicks[i].pc = "idle"
    /\ ~pins.otherWriter

====
